---- MODULE Spec2Model ----
(***************************************************************************)
(* A model of binutils-strings-rust: the two Symbol Sources                *)
(* (ByteArrayHolder, ReaderWithSeek), the character classifier, the UTF-8  *)
(* validator, the display formatter and the two scanners of                *)
(* src/src/strings.rs (print_strings and print_unicode_stream).            *)
(*                                                                         *)
(* Bytes are integers 0..255.  A u32 symbol is the tuple of its four       *)
(* bytes, most significant first, so that 32-bit values with the top bit   *)
(* set stay exact.  u64 addresses are integers; a value that wrapped       *)
(* below zero in a build without overflow checks is kept as its negative   *)
(* residue (it stands for 2^64 + the value).                               *)
(***************************************************************************)
EXTENDS Integers, Sequences, FiniteSets, TLC

\* ------------------------------------------------------------------ bounds
\* Longest input of a fixed-width scan, of a Unicode-aware scan and of a
\* Symbol Source exercise; largest min_length; the non-zero base address.
MaxLenFixed == 5
MaxLenUnicode == 4
MaxLenSource == 6
MaxMinLength == 2
BaseAddress == 16
MaxRoundTrip == 2
MaxLenSink == 3
MaxLenPrefix == 3
MaxLenZero == 2
MaxRunsZero == 4
MaxLenWide == 2
WideMinLength == 16384
MaxChar == 300
MaxWindow == 4

\* ------------------------------------------------------- program constants
MAX_KEEP_BACK_SIZE == 4

Encodings == {"Bit7", "Bit8", "BigEndian16", "LittleEndian16",
              "BigEndian32", "LittleEndian32"}

Displays == {"Default", "Show", "Escape", "Hex", "Highlight", "Invalid"}

Radixes == {"Oct", "Dec", "Hex"}

num_bytes(encoding) ==
    CASE encoding \in {"Bit7", "Bit8"} -> 1
      [] encoding \in {"BigEndian16", "LittleEndian16"} -> 2
      [] encoding \in {"BigEndian32", "LittleEndian32"} -> 4

\* Bits lo .. lo+n-1 of byte b, as a number: (b >> lo) & (2^n - 1).
Bits(b, lo, n) == (b \div (2 ^ lo)) % (2 ^ n)

\* ------------------------------------------------------------- u32 symbols
Zero32 == <<0, 0, 0, 0>>

\* (result << 8) | (current & 0xff) on a u32: the top byte falls off.
ShiftIn(result, current) == <<result[2], result[3], result[4], current>>

\* symbol > 255
Above255(symbol) == symbol[1] # 0 \/ symbol[2] # 0 \/ symbol[3] # 0

\* symbol as u8
LowByte(symbol) == symbol[4]

to_little_endian_32(symbol) == <<symbol[4], symbol[3], symbol[2], symbol[1]>>

\* A 16-bit conversion that leaves the composed value as it is.
to_little_endian_16_unswapped(symbol) == symbol

to_little_endian_16(symbol) == <<0, 0, symbol[4], symbol[3]>>

ApplyEndianness(encoding, result) ==
    CASE encoding = "LittleEndian16" -> to_little_endian_16(result)
      [] encoding = "LittleEndian32" -> to_little_endian_32(result)
      [] OTHER -> result

NoSymbol == [some |-> FALSE, value |-> Zero32, read |-> 0]

SomeSymbol(value, read) == [some |-> TRUE, value |-> value, read |-> read]

\* ------------------------------------------------------ character classifier
\* A graphic range that takes DEL in.
is_printable_ascii_with_del(c) == c >= 32 /\ c <= 127

is_printable_ascii(c) == c >= 32 /\ c <= 126

\* char::is_ascii_whitespace: space, tab, line feed, form feed, carriage return.
is_ascii_whitespace(c) == c \in {32, 9, 10, 12, 13}

char_is_printable(c, encoding, include_all_whitespace) ==
    /\ c >= 0
    /\ c <= 255
    /\ \/ c = 9
       \/ is_printable_ascii(c)
       \/ (encoding = "Bit8" /\ c > 127)
       \/ (include_all_whitespace /\ (is_ascii_whitespace(c) \/ c = 11))

\* symbol > 255 || !char_is_printable(symbol as u8 as char, ...)
SymbolRejected(symbol, encoding, include_all_whitespace) ==
    \/ Above255(symbol)
    \/ ~char_is_printable(LowByte(symbol), encoding, include_all_whitespace)

\* A test of the top bit alone.
NotContinuationTopBit(b) == Bits(b, 7, 1) # 1

\* (b & 0xc0) != 0x80
NotContinuation(b) == Bits(b, 6, 2) # 2

is_valid_utf8(buffer) ==
    IF buffer[1] < 192 THEN 0
    ELSE IF Len(buffer) < 2 THEN 0
    ELSE IF NotContinuation(buffer[2]) THEN 0
    ELSE IF Bits(buffer[1], 5, 1) = 0 THEN 2
    ELSE IF Len(buffer) < 3 THEN 0
    ELSE IF NotContinuation(buffer[3]) THEN 0
    ELSE IF Bits(buffer[1], 4, 1) = 0 THEN 3
    ELSE IF Len(buffer) < 4 THEN 0
    ELSE IF NotContinuation(buffer[4]) THEN 0
    ELSE 4

\* ------------------------------------------------- ByteArrayHolder (slice)
NewByteArrayHolder(bytes) == [kind |-> "array", inner |-> bytes, position |-> 0]

RECURSIVE ByteArrayHolder_read_loop(_, _, _, _)
ByteArrayHolder_read_loop(h, width, num_read, result) ==
    IF num_read < width
    THEN IF h.position < 0 \/ h.position + num_read >= Len(h.inner)
         THEN [num_read |-> num_read, result |-> result]
         ELSE ByteArrayHolder_read_loop(h, width, num_read + 1,
                  ShiftIn(result, h.inner[h.position + num_read + 1]))
    ELSE [num_read |-> num_read, result |-> result]

ByteArrayHolder_read_symbol(h, encoding) ==
    IF Len(h.inner) = 0
    THEN [ret |-> NoSymbol, src |-> h]
    ELSE LET r == ByteArrayHolder_read_loop(h, num_bytes(encoding), 0, Zero32)
         IN  IF r.num_read = 0
             THEN [ret |-> NoSymbol, src |-> h]
             ELSE [ret |-> SomeSymbol(ApplyEndianness(encoding, r.result), r.num_read),
                   src |-> [h EXCEPT !.position = h.position + r.num_read]]

\* self.position -= num_bytes: below zero the subtraction overflows.
ByteArrayHolder_seek_back(h, n) ==
    [src |-> [h EXCEPT !.position = h.position - n],
     overflow |-> (h.position >= 0 /\ n > h.position),
     panic |-> FALSE]

\* ------------------------------------------------- ReaderWithSeek (stream)
NewReaderWithSeek(bytes) ==
    [kind |-> "reader", inner |-> bytes, back_buf |-> <<>>, back_pos |-> 0]

\* A history of two bytes.
TrimBackBufShort(buf) ==
    IF Len(buf) > 2 THEN SubSeq(buf, Len(buf) - 1, Len(buf)) ELSE buf

\* A history that is never cut back.
TrimBackBufNever(buf) == buf

\* A history that drops its newest byte instead of its oldest.
TrimBackBufNewest(buf) ==
    IF Len(buf) > MAX_KEEP_BACK_SIZE THEN SubSeq(buf, 1, MAX_KEEP_BACK_SIZE) ELSE buf

\* while self.back_buf.len() > MAX_KEEP_BACK_SIZE { pop_front }
RECURSIVE TrimBackBuf(_)
TrimBackBuf(buf) ==
    IF Len(buf) > MAX_KEEP_BACK_SIZE THEN TrimBackBuf(Tail(buf)) ELSE buf

\* A read-back that always takes the newest byte of the history.
BackBufByteLast(r) == r.back_buf[Len(r.back_buf)]

\* The byte read back from the retained history.
BackBufByte(r) == r.back_buf[Len(r.back_buf) - r.back_pos + 1]

RECURSIVE ReaderWithSeek_read_loop(_, _, _, _)
ReaderWithSeek_read_loop(r, width, num_read, result) ==
    IF num_read < width
    THEN IF r.back_pos > 0
         THEN ReaderWithSeek_read_loop(
                  [r EXCEPT !.back_pos = r.back_pos - 1,
                            !.back_buf = TrimBackBuf(r.back_buf)],
                  width, num_read + 1, ShiftIn(result, BackBufByte(r)))
         ELSE IF Len(r.inner) = 0
              THEN [src |-> r, num_read |-> num_read, result |-> result]
              ELSE ReaderWithSeek_read_loop(
                       [r EXCEPT !.inner = Tail(r.inner),
                                 !.back_buf = TrimBackBuf(Append(r.back_buf, Head(r.inner)))],
                       width, num_read + 1, ShiftIn(result, Head(r.inner)))
    ELSE [src |-> r, num_read |-> num_read, result |-> result]

ReaderWithSeek_read_symbol(r, encoding) ==
    LET l == ReaderWithSeek_read_loop(r, num_bytes(encoding), 0, Zero32)
    IN  IF l.num_read = 0
        THEN [ret |-> NoSymbol, src |-> l.src]
        ELSE [ret |-> SomeSymbol(ApplyEndianness(encoding, l.result), l.num_read),
              src |-> l.src]

\* A seek-back that forgets the bytes already pending for re-reading.
ReaderWithSeek_seek_back_reset(r, n) ==
    [src |-> [r EXCEPT !.back_pos = n],
     overflow |-> FALSE,
     panic |-> (n > Len(r.back_buf))]

\* A seek-back that stops at the oldest retained byte instead of panicking.
ReaderWithSeek_seek_back_clamped(r, n) ==
    [src |-> [r EXCEPT !.back_pos = IF r.back_pos + n > Len(r.back_buf)
                                    THEN Len(r.back_buf) ELSE r.back_pos + n],
     overflow |-> FALSE,
     panic |-> FALSE]

\* self.back_pos += num_bytes; panic when it exceeds back_buf.len().
ReaderWithSeek_seek_back(r, n) ==
    [src |-> [r EXCEPT !.back_pos = r.back_pos + n],
     overflow |-> FALSE,
     panic |-> (r.back_pos + n > Len(r.back_buf))]

\* read_byte: read_symbol(Bit8), the value truncated to u8.
ByteOf(r) == [some |-> r.ret.some, byte |-> LowByte(r.ret.value), src |-> r.src]

ByteArrayHolder_read_byte(h) == ByteOf(ByteArrayHolder_read_symbol(h, "Bit8"))

ReaderWithSeek_read_byte(r) == ByteOf(ReaderWithSeek_read_symbol(r, "Bit8"))

\* ------------------------------------------------------ dyn DataSource calls
read_symbol(data, encoding) ==
    IF data.kind = "array"
    THEN ByteArrayHolder_read_symbol(data, encoding)
    ELSE ReaderWithSeek_read_symbol(data, encoding)

read_byte(data) ==
    IF data.kind = "array"
    THEN ByteArrayHolder_read_byte(data)
    ELSE ReaderWithSeek_read_byte(data)

seek_back(data, n) ==
    IF data.kind = "array"
    THEN ByteArrayHolder_seek_back(data, n)
    ELSE ReaderWithSeek_seek_back(data, n)

\* The number of input bytes the source has handed out and not taken back.
Consumed(data, bytes) ==
    IF data.kind = "array"
    THEN data.position
    ELSE Len(bytes) - Len(data.inner) - data.back_pos

\* ------------------------------------------------------------- formatting
RECURSIVE Digits(_, _)
Digits(n, base) ==
    IF n < base THEN <<n>> ELSE Digits(n \div base, base) \o <<n % base>>

\* The ASCII code of a digit, lowercase above 9.
DigitChar(d) == IF d < 10 THEN 48 + d ELSE 87 + d

Chars(ds) == [k \in 1..Len(ds) |-> DigitChar(ds[k])]

RECURSIVE PadLeft(_, _, _)
PadLeft(s, width, fill) ==
    IF Len(s) >= width THEN s ELSE PadLeft(<<fill>> \o s, width, fill)

\* {:x} of a u8, without the minimum width.
Hex2Unpadded(b) == Chars(Digits(b, 16))

\* {:02x} of a u8.
Hex2(b) == Chars(PadLeft(Digits(b, 16), 2, 0))

\* A shift that keeps the bits above the eighth.
Shl6Wide(b) == b * 64

\* b << 6 on a u8: the bits shifted out are dropped.
Shl6(b) == (b * 64) % 256

\* The digits of a u64 in the given base.  A negative value is the residue of
\* a wrapped subtraction and stands for 2^64 + a; its digits are those of
\* 2^64 - 1 less (-a - 1), taken digit by digit (no borrow arises below).
U64Digits(a, base) ==
    IF a >= 0 THEN Digits(a, base)
    ELSE LET m == PadLeft(Digits(-a - 1, base), 9, 0)
             low(top) == [k \in 1..Len(top) |->
                             IF k <= Len(top) - Len(m) THEN top[k]
                             ELSE top[k] - m[k - (Len(top) - Len(m))]]
         IN  CASE base = 16 -> low([k \in 1..16 |-> 15])
               [] base = 8 -> low(<<1>> \o [k \in 1..21 |-> 7])
               [] base = 10 -> low(<<1, 8, 4, 4, 6, 7, 4, 4, 0, 7, 3,
                                     7, 0, 9, 5, 5, 1, 6, 1, 5>>)

\* A radix that is hexadecimal whatever is configured.
RadixBaseHex(radix) == 16

RadixBase(radix) ==
    CASE radix = "Oct" -> 8 [] radix = "Dec" -> 10 [] radix = "Hex" -> 16

\* What print_filename_and_address writes.
print_filename_and_address(filename, addr, options) ==
    (IF options.print_filenames THEN filename \o <<58, 32>> ELSE <<>>)
    \o (IF options.print_addresses
        THEN PadLeft(Chars(U64Digits(addr, RadixBase(options.address_radix))), 7, 32)
             \o <<32>>
        ELSE <<>>)

\* {:01?} of a byte slice: [d, d, d, d].
RECURSIVE DebugList(_)
DebugList(bytes) ==
    IF Len(bytes) = 0 THEN <<>>
    ELSE Chars(Digits(Head(bytes), 10))
         \o (IF Len(bytes) > 1 THEN <<44, 32>> ELSE <<>>)
         \o DebugList(Tail(bytes))

\* A length that takes every lead byte for that of a 4-byte sequence.
utf8_len_always_4(lead) == 4

utf8_len_of(lead) ==
    CASE Bits(lead, 4, 2) \in {0, 1} -> 2
      [] Bits(lead, 4, 2) = 2 -> 3
      [] OTHER -> 4

EscapeBody(buffer, utf8_len) ==
    <<92, 117>> \o
    (CASE utf8_len = 2 ->
            Hex2(Bits(buffer[1], 2, 3))
            \o Hex2(Bits(buffer[1], 0, 2) * 64 + Bits(buffer[2], 0, 6))
       [] utf8_len = 3 ->
            Hex2(Bits(buffer[1], 0, 4) * 16 + Bits(buffer[2], 2, 4))
            \o Hex2(Bits(buffer[2], 0, 2) * 64 + Bits(buffer[3], 0, 6))
       [] utf8_len = 4 ->
            Hex2(Shl6(Bits(buffer[1], 0, 3)) + Bits(buffer[2], 2, 4))
            \o Hex2(Bits(buffer[2], 0, 2) * 64 + Bits(buffer[3], 2, 4))
            \o Hex2(Bits(buffer[3], 0, 2) * 64 + Bits(buffer[4], 0, 6)))

\* display_utf8_char: the bytes written and the length returned.  buffer is
\* the window handed over (four bytes); is_tty is atty::is(Stream::Stdout).
display_utf8_char(buffer, display, is_tty) ==
    LET utf8_len == utf8_len_of(buffer[1])
        colour == display = "Highlight" /\ is_tty
        written ==
            CASE display \in {"Escape", "Highlight"} ->
                    (IF colour THEN <<27, 91, 51, 49, 59, 52, 55, 109>> ELSE <<>>)
                    \o EscapeBody(buffer, utf8_len)
                    \o (IF colour THEN <<0, 51, 51, 91, 48, 109>> ELSE <<>>)
              [] display = "Hex" ->
                    <<60, 48, 120>>
                    \o Hex2(buffer[1]) \o Hex2(buffer[2])
                    \o (IF utf8_len >= 3 THEN Hex2(buffer[3]) ELSE <<>>)
                    \o (IF utf8_len >= 4 THEN Hex2(buffer[4]) ELSE <<>>)
                    \o <<62>>
              [] display = "Show" -> <<91>> \o DebugList(buffer) \o <<93>>
              [] OTHER -> <<>>
    IN  [written |-> written, len |-> utf8_len]

\* ---------------------------------------------------------------- the state
VARIABLES
    input,      \* the bytes under scan
    options,    \* the Options of the scan
    address,    \* the base address handed to print_strings
    is_tty,     \* atty::is(Stream::Stdout)
    data,       \* the DataSource of the running scan
    pc,         \* where print_strings stands
    ps,         \* locals of print_strings
    fm,         \* locals of find_matching_ascii_sequence
    us,         \* locals of print_unicode_stream
    out,        \* the bytes written to the writer
    emitted,    \* one record per prefix written: the run it opened
    probe_pos,  \* input position where the current candidate began
    build,      \* overflow checks: "unknown" until an overflow decides it
    first,      \* outcome of the scan through the ByteArrayHolder
    holder,     \* Symbol Source exercise: the ByteArrayHolder
    reader,     \* Symbol Source exercise: the ReaderWithSeek
    got,        \* Symbol Source exercise: what the last call returned
    rt,         \* Symbol Source exercise: the last seek-back round trip
    sink,       \* the writer: "ok", "broken" (its writes fail), "failed"
    fn          \* a call of a function of utils.rs and what it returned

vars == <<input, options, address, is_tty, data, pc, ps, fm, us, out, emitted,
          probe_pos, build, first, holder, reader, got, rt, sink, fn>>

scanVars == <<data, pc, ps, fm, us, out, emitted, probe_pos, build, first>>

sourceVars == <<holder, reader, got, rt>>

\* ----------------------------------------------------------- input domains
Seqs(S, n) == UNION {[1..k -> S] : k \in 0..n}

\* NUL, 'A' and a byte above 0x7F.
FixedBytes == {0, 65, 195}

\* NUL, 'A', a continuation byte and the lead bytes of a 2- and a 4-byte
\* sequence; and the same with the lead byte of a 3-byte sequence.
UnicodeBytes == {0, 65, 169, 195, 240}

ThreeByteBytes == {0, 65, 169, 224}

UnicodeInputs == Seqs(UnicodeBytes, MaxLenUnicode) \cup Seqs(ThreeByteBytes, MaxLenUnicode)

\* Values of the repository's data-source tests.
SourceBytes == {18, 170}

NoSeparator == [some |-> FALSE, bytes |-> <<>>]

BarSeparator == [some |-> TRUE, bytes |-> <<124>>]

FileName == <<102>>

\* The two set-ups of a scan: a file (base address 0, default separator) and
\* an object-file section loaded at BaseAddress, with a separator configured.
Setups == {[address |-> 0, output_separator |-> NoSeparator],
           [address |-> BaseAddress, output_separator |-> BarSeparator]}

FixedOptions ==
    [min_length : 1..MaxMinLength,
     include_all_whitespace : {FALSE},
     encoding : Encodings,
     unicode_display : {"Default"},
     output_separator : {NoSeparator, BarSeparator},
     address_radix : {"Hex"},
     print_filenames : {FALSE},
     print_addresses : {TRUE}]

UnicodeOptions ==
    [min_length : 1..MaxMinLength,
     include_all_whitespace : {FALSE},
     encoding : {"Bit8"},
     unicode_display : Displays \ {"Default"},
     output_separator : {NoSeparator, BarSeparator},
     address_radix : {"Hex"},
     print_filenames : {FALSE},
     print_addresses : {TRUE}]

NoPs == [search_start_address |-> 0, current_address |-> 0, buffer |-> <<>>]

NoFm == [search_start_address |-> 0, current_address |-> 0, i |-> 0]

NoUs == [start_point |-> 0, num_read |-> 0, num_chars |-> 0, num_print |-> 0,
         print_buf |-> <<>>]

NoFirst == [pc |-> "none", out |-> <<>>]

NoRt == [n |-> 0]

NoFn == [op |-> "none"]

IdleSource ==
    /\ holder = NewByteArrayHolder(<<>>)
    /\ reader = NewReaderWithSeek(<<>>)
    /\ got = [array |-> NoSymbol, reader |-> NoSymbol,
              call |-> [op |-> "none", encoding |-> "Bit8", n |-> 0,
                        at |-> [array |-> 0, reader |-> 0]]]
    /\ rt = NoRt
    /\ fn = NoFn

ScanStart ==
    /\ data = NewByteArrayHolder(input)
    /\ pc = "start"
    /\ ps = NoPs
    /\ fm = NoFm
    /\ us = NoUs
    /\ out = <<>>
    /\ emitted = <<>>
    /\ probe_pos = 0
    /\ build = "unknown"
    /\ first = NoFirst
    /\ sink = "ok"

InitFixed ==
    /\ input \in Seqs(FixedBytes, MaxLenFixed)
    /\ options \in FixedOptions
    /\ \E s \in Setups : address = s.address /\ options.output_separator = s.output_separator
    /\ is_tty = FALSE
    /\ ScanStart
    /\ IdleSource

InitUnicode ==
    /\ input \in UnicodeInputs
    /\ options \in UnicodeOptions
    /\ \E s \in Setups : address = s.address /\ options.output_separator = s.output_separator
    /\ is_tty = FALSE
    /\ ScanStart
    /\ IdleSource

Init == InitFixed \/ InitUnicode

\* ------------------------------------------------------ overflow and panics
\* What a step can come to: "panic" when a seek-back panics or an overflow
\* meets overflow checks, "wrap" when an overflow wraps, "go" otherwise.  The
\* first overflow of a behaviour decides which build is running.
Outcomes(overflow, panic) ==
    IF panic THEN {"panic"}
    ELSE IF ~overflow THEN {"go"}
    ELSE CASE build = "unknown" -> {"panic", "wrap"}
           [] build = "debug" -> {"panic"}
           [] build = "release" -> {"wrap"}

BuildAfter(overflow, outcome) ==
    IF ~overflow \/ build # "unknown" THEN build
    ELSE IF outcome = "wrap" THEN "release" ELSE "debug"

\* write!/copy to the writer returns Err: the writer is broken and there is
\* something to write.
WriteFails(bytes) == sink # "ok" /\ bytes # <<>>

\* A writer that ends every run with a newline, whatever is configured.
SeparatorNewlineOnly == <<10>>

Separator == IF options.output_separator.some
             THEN options.output_separator.bytes
             ELSE <<10>>

\* ------------------------------------------------------- print_strings entry
\* The first statements of print_strings: the dispatch on unicode_display and
\* the set-up of the scan loop it enters.
EnterFind(start) ==
    [search_start_address |-> start, current_address |-> start, i |-> 0]

NewUnicodeLocals ==
    [start_point |-> 0, num_read |-> 0, num_chars |-> 0, num_print |-> 0,
     print_buf |-> [k \in 1..((options.min_length * 4) % 65536) |-> 0]]

\* options.min_length * 4 on a u16 does not fit: print_unicode_stream has
\* passed its encoding check and sizes print_buf.
PrintBufOverflow ==
    options.encoding = "Bit8" /\ options.min_length * 4 >= 65536

\* print_buf[num_print + len - 1] lies past the end of print_buf.
StoreOutOfBounds(print_buf, num_print, len) == num_print + len > Len(print_buf)

PrintStrings ==
    /\ pc = "start"
    /\ IF options.unicode_display # "Default"
       THEN \E outcome \in Outcomes(PrintBufOverflow, FALSE) :
              /\ build' = BuildAfter(PrintBufOverflow, outcome)
              /\ pc' = (CASE outcome = "panic" -> "panic"
                          [] options.encoding = "Bit8" -> "uprobe"
                          [] OTHER -> "done")
              /\ us' = NewUnicodeLocals
              /\ UNCHANGED <<ps, fm>>
       ELSE /\ pc' = "probe"
            /\ ps' = [search_start_address |-> address,
                      current_address |-> address, buffer |-> <<>>]
            /\ fm' = EnterFind(address)
            /\ us' = us
            /\ build' = build
    /\ probe_pos' = 0
    /\ UNCHANGED <<input, options, address, is_tty, data, out, emitted,
                   first, sourceVars, sink, fn>>

\* ------------------------------------------- find_matching_ascii_sequence
\* A probe loop that stops one symbol early.
AsciiProbeDoneEarly(i) == i + 1 >= options.min_length

\* The inner while loop has run its course: i < options.min_length fails.
AsciiProbeDone(i) == i >= options.min_length

\* A retry that keeps what the failed candidate had gathered.
RetryBufferKept(buffer) == buffer

\* if !buffer.is_empty() { buffer.clear() } at the head of every retry.
RetryBuffer(buffer) == <<>>

\* search_start_address after a symbol failed.
NextSearchStart(current_address, encoding) ==
    current_address - (num_bytes(encoding) - 1)

\* A retry that slides by one symbol: nothing is handed back.
ProbeSeekBackBytesNone(read) == 0

\* A retry that goes back over the whole failing symbol.
ProbeSeekBackBytesAll(read) == read

\* data.seek_back(read - 1) after a symbol failed.
ProbeSeekBackBytes(read) == read - 1

\* The value returned: current_address - buffer.len().
FoundAddress(current_address, buffer) == current_address - Len(buffer)

\* An extension loop that leaves the failing symbol counted.
UndoReadForgotten(current_address, read) == current_address

\* current_address -= read, when the extension loop meets a failing symbol.
UndoRead(current_address, read) == current_address - read

\* One turn of the inner while loop: read a symbol and classify it.
FindProbeStep ==
    /\ pc = "probe"
    /\ ~AsciiProbeDone(fm.i)
    /\ LET r == read_symbol(data, options.encoding)
           cur == fm.current_address + r.ret.read
           next == NextSearchStart(cur, options.encoding)
           sb == seek_back(r.src, ProbeSeekBackBytes(r.ret.read))
       IN  IF ~r.ret.some
           THEN \* `?`: the function returns None and print_strings returns.
                /\ pc' = "done"
                /\ data' = r.src
                /\ UNCHANGED <<ps, fm, probe_pos, build>>
           ELSE IF SymbolRejected(r.ret.value, options.encoding,
                                  options.include_all_whitespace)
           THEN LET overflow == (cur >= 0 /\ next < 0) \/ sb.overflow
                IN  \E outcome \in Outcomes(overflow, sb.panic) :
                      /\ build' = BuildAfter(overflow, outcome)
                      /\ pc' = (IF outcome = "panic" THEN "panic" ELSE "probe")
                      /\ data' = sb.src
                      /\ fm' = [search_start_address |-> next,
                                current_address |-> next, i |-> 0]
                      /\ ps' = [ps EXCEPT !.buffer = RetryBuffer(ps.buffer)]
                      /\ probe_pos' = Consumed(sb.src, input)
           ELSE /\ pc' = "probe"
                /\ data' = r.src
                /\ fm' = [fm EXCEPT !.current_address = cur, !.i = (fm.i + 1) % 65536]
                /\ ps' = [ps EXCEPT !.buffer = Append(ps.buffer, LowByte(r.ret.value))]
                /\ UNCHANGED <<probe_pos, build>>
    /\ UNCHANGED <<input, options, address, is_tty, us, out, emitted, first,
                   sourceVars, sink, fn>>

\* The probe is complete: find_matching_ascii_sequence returns the start
\* address, print_strings takes it over and writes the prefix.
FoundSequence ==
    /\ pc = "probe"
    /\ AsciiProbeDone(fm.i)
    /\ LET found == FoundAddress(fm.current_address, ps.buffer)
           overflow == fm.current_address >= 0 /\ found < 0
       IN  \E outcome \in Outcomes(overflow, FALSE) :
             /\ build' = BuildAfter(overflow, outcome)
             /\ IF outcome = "panic"
                THEN /\ pc' = "panic"
                     /\ UNCHANGED <<ps, out, emitted, sink>>
                ELSE IF WriteFails(print_filename_and_address(FileName, found, options))
                THEN \* write_or_panic!: the prefix cannot be written.
                     /\ pc' = "panic"
                     /\ sink' = "failed"
                     /\ UNCHANGED <<ps, out, emitted>>
                ELSE /\ pc' = "extend"
                     /\ sink' = sink
                     /\ ps' = [ps EXCEPT !.search_start_address = found,
                                         !.current_address = found + Len(ps.buffer)]
                     /\ out' = out \o print_filename_and_address(FileName, found, options)
                     /\ emitted' = Append(emitted,
                            [address |-> found, pos |-> probe_pos,
                             found_end |-> Consumed(data, input),
                             content |-> <<>>, closed |-> FALSE,
                             resume |-> 0, end_pos |-> 0])
    /\ UNCHANGED <<input, options, address, is_tty, data, fm, us, probe_pos,
                   first, sourceVars, fn>>

\* ------------------------------------------------ print_strings, extension
\* One turn of the loop that continues until a non-valid char is found.
ExtendStep ==
    /\ pc = "extend"
    /\ LET r == read_symbol(data, options.encoding)
           sb == seek_back(r.src, r.ret.read)
       IN  IF ~r.ret.some
           THEN /\ pc' = "separator"
                /\ data' = r.src
                /\ UNCHANGED <<ps, build>>
           ELSE IF SymbolRejected(r.ret.value, options.encoding,
                                  options.include_all_whitespace)
           THEN \E outcome \in Outcomes(sb.overflow, sb.panic) :
                  /\ build' = BuildAfter(sb.overflow, outcome)
                  /\ pc' = (IF outcome = "panic" THEN "panic" ELSE "separator")
                  /\ data' = sb.src
                  /\ ps' = [ps EXCEPT !.current_address =
                                UndoRead(ps.current_address + r.ret.read, r.ret.read)]
           ELSE /\ pc' = "extend"
                /\ data' = r.src
                /\ ps' = [ps EXCEPT !.current_address = ps.current_address + r.ret.read,
                                    !.buffer = Append(ps.buffer, LowByte(r.ret.value))]
                /\ build' = build
    /\ UNCHANGED <<input, options, address, is_tty, fm, us, out, emitted,
                   probe_pos, first, sourceVars, sink, fn>>

\* The run is over: the buffer and the separator go to the writer and the
\* next search starts where this run ended.
EmitSeparator ==
    /\ pc = "separator"
    /\ IF WriteFails(ps.buffer \o Separator)
       THEN \* The result of std::io::copy is dropped.
            /\ out' = out
            /\ sink' = "failed"
       ELSE /\ out' = out \o ps.buffer \o Separator
            /\ sink' = sink
    /\ emitted' = [emitted EXCEPT ![Len(emitted)] =
                      [@ EXCEPT !.content = ps.buffer, !.closed = TRUE,
                                !.resume = ps.current_address,
                                !.end_pos = Consumed(data, input)]]
    /\ ps' = [search_start_address |-> ps.current_address,
              current_address |-> ps.current_address, buffer |-> <<>>]
    /\ fm' = EnterFind(ps.current_address)
    /\ probe_pos' = Consumed(data, input)
    /\ pc' = "probe"
    /\ UNCHANGED <<input, options, address, is_tty, data, us, build, first,
                   sourceVars, fn>>

\* ---------------------------------------------------- print_unicode_stream
\* The seek-back distances issued when a multi-byte candidate is given up at
\* its 2nd, 3rd and 4th byte: in the probe loop and in the extension loop.
ProbeSeekBack == <<1, 2, 3>>

ExtendSeekBack == <<1, 1, 3>>

\* "Time to start peeking": the bytes read after lead byte c.  outcome is
\* "eof" (read_byte returned None), "reject" (invalid, or valid under display
\* Invalid; the source has been sought back) or "char" (a sequence of len
\* bytes stands in utf8).  nread counts the bytes read.
PeekResult(outcome, src, nread, utf8, len, sb) ==
    [outcome |-> outcome, src |-> src, nread |-> nread, utf8 |-> utf8,
     len |-> len, overflow |-> sb.overflow, panic |-> sb.panic]

NoSeek(src) == [src |-> src, overflow |-> FALSE, panic |-> FALSE]

\* A test of the lead byte that looks one bit too low for 2-byte sequences.
DeclaredLengthLowBit(c, k) ==
    CASE k = 2 -> Bits(c, 4, 1) = 0
      [] k = 3 -> Bits(c, 4, 1) = 0
      [] OTHER -> TRUE

\* The candidate's declared length is k: its lead byte says no more follow.
DeclaredLength(c, k) ==
    CASE k = 2 -> Bits(c, 5, 1) = 0
      [] k = 3 -> Bits(c, 4, 1) = 0
      [] OTHER -> TRUE

\* A scanner that takes valid sequences for graphic under every display.
TreatedAsNonGraphicNever(display) == FALSE

\* matches!(options.unicode_display, UnicodeDisplayKind::Invalid): a valid
\* multi-byte sequence is treated as non-graphic.
TreatedAsNonGraphic(display) == display = "Invalid"

Rejected(sb, nread, utf8) == PeekResult("reject", sb.src, nread, utf8, 0, sb)

RECURSIVE PeekByte(_, _, _, _, _)
RECURSIVE PeekFrom(_, _, _, _, _)
\* r is what read_byte returned for byte k of the candidate.
PeekByte(r, utf8, k, back, display) ==
    IF ~r.some
    THEN PeekResult("eof", r.src, k - 2, utf8, 0, NoSeek(r.src))
    ELSE IF NotContinuation(r.byte)
    THEN Rejected(seek_back(r.src, back[k - 1]), k - 1, [utf8 EXCEPT ![k] = r.byte])
    ELSE IF DeclaredLength(utf8[1], k)
    THEN IF TreatedAsNonGraphic(display)
         THEN Rejected(seek_back(r.src, back[k - 1]), k - 1, [utf8 EXCEPT ![k] = r.byte])
         ELSE PeekResult("char", r.src, k - 1, [utf8 EXCEPT ![k] = r.byte], k,
                         NoSeek(r.src))
    ELSE PeekFrom(r.src, [utf8 EXCEPT ![k] = r.byte], k + 1, back, display)

PeekFrom(src, utf8, k, back, display) ==
    PeekByte(read_byte(src), utf8, k, back, display)

PeekUtf8(src, c, back, display) == PeekFrom(src, <<c, 0, 0, 0>>, 2, back, display)

\* print_buf with the first len bytes of utf8 stored from index num_print on.
StoreChar(print_buf, num_print, utf8, len) ==
    [k \in 1..Len(print_buf) |->
        IF k > num_print /\ k <= num_print + len
        THEN utf8[k - num_print] ELSE print_buf[k]]

\* if num_chars >= options.min_length { break }
UnicodeProbeDone(num_chars) == num_chars >= options.min_length

\* One turn of the loop that finds a series of string_min characters.
UnicodeProbeStep ==
    /\ pc = "uprobe"
    /\ ~UnicodeProbeDone(us.num_chars)
    /\ LET r == read_byte(data)
           c == r.byte
           n1 == (us.num_read + 1) % 65536
           start == IF us.num_chars = 0 THEN n1 - 1 ELSE us.start_point
           began == IF us.num_chars = 0 THEN Consumed(data, input) ELSE probe_pos
           reset(n) == [us EXCEPT !.num_read = n, !.num_chars = 0, !.num_print = 0]
           p == PeekUtf8(r.src, c, ProbeSeekBack, options.unicode_display)
           np == (n1 + p.nread) % 65536
       IN  IF ~r.some
           THEN /\ pc' = "done"
                /\ data' = r.src
                /\ UNCHANGED <<us, probe_pos, build>>
           ELSE IF ~char_is_printable(c, options.encoding, options.include_all_whitespace)
           THEN /\ pc' = "uprobe"
                /\ data' = r.src
                /\ us' = reset(n1)
                /\ UNCHANGED <<probe_pos, build>>
           ELSE IF c < 127
           THEN /\ pc' = (IF StoreOutOfBounds(us.print_buf, us.num_print, 1)
                          THEN "panic" ELSE "uprobe")
                /\ data' = r.src
                /\ us' = [us EXCEPT !.num_read = n1, !.start_point = start,
                                    !.print_buf = StoreChar(us.print_buf, us.num_print, <<c>>, 1),
                                    !.num_chars = (us.num_chars + 1) % 65536,
                                    !.num_print = (us.num_print + 1) % 65536]
                /\ probe_pos' = began
                /\ build' = build
           ELSE IF c < 192
           THEN /\ pc' = "uprobe"
                /\ data' = r.src
                /\ us' = [reset(n1) EXCEPT !.start_point = start]
                /\ probe_pos' = began
                /\ build' = build
           ELSE \E outcome \in Outcomes(p.overflow, p.panic) :
                  /\ build' = BuildAfter(p.overflow, outcome)
                  /\ data' = p.src
                  /\ probe_pos' = began
                  /\ pc' = (CASE outcome = "panic" -> "panic"
                              [] p.outcome = "eof" -> "done"
                              [] p.outcome = "char"
                                 /\ StoreOutOfBounds(us.print_buf, us.num_print, p.len)
                                   -> "panic"
                              [] OTHER -> "uprobe")
                  /\ us' = (IF p.outcome = "char"
                            THEN [us EXCEPT !.num_read = np, !.start_point = start,
                                            !.print_buf = StoreChar(us.print_buf, us.num_print,
                                                                    p.utf8, p.len),
                                            !.num_chars = (us.num_chars + 1) % 65536,
                                            !.num_print = (us.num_print + p.len) % 65536]
                            ELSE [reset(np) EXCEPT !.start_point = start])
    /\ UNCHANGED <<input, options, address, is_tty, ps, fm, out, emitted, first,
                   sourceVars, sink, fn>>

\* The display loop over print_buf: the bytes written, and whether a window
\* print_buf[i..i + 4] ran past the end of print_buf (a panic).
RECURSIVE ReplayPrintBuf(_, _, _, _, _)
ReplayPrintBuf(print_buf, num_print, i, display, tty) ==
    IF i >= num_print THEN [written |-> <<>>, panic |-> FALSE]
    ELSE IF print_buf[i + 1] < 127
    THEN LET rest == ReplayPrintBuf(print_buf, num_print, i + 1, display, tty)
         IN  [written |-> <<print_buf[i + 1]>> \o rest.written, panic |-> rest.panic]
    ELSE IF i + 4 > Len(print_buf) THEN [written |-> <<>>, panic |-> TRUE]
    ELSE LET d == display_utf8_char(SubSeq(print_buf, i + 1, i + 4), display, tty)
             rest == ReplayPrintBuf(print_buf, num_print, i + d.len, display, tty)
         IN  [written |-> d.written \o rest.written, panic |-> rest.panic]

\* string_min characters stand in print_buf: write the prefix and display
\* them.
UnicodeFound ==
    /\ pc = "uprobe"
    /\ UnicodeProbeDone(us.num_chars)
    /\ LET start == address + us.start_point
           replay == ReplayPrintBuf(us.print_buf, us.num_print, 0,
                                    options.unicode_display, is_tty)
       IN  IF WriteFails(print_filename_and_address(FileName, start, options)
                             \o replay.written)
           THEN /\ pc' = "panic"
                /\ sink' = "failed"
                /\ UNCHANGED <<out, emitted>>
           ELSE /\ out' = out \o print_filename_and_address(FileName, start, options)
                              \o replay.written
                /\ emitted' = Append(emitted,
                       [address |-> start, pos |-> probe_pos,
                        found_end |-> Consumed(data, input),
                        content |-> replay.written, closed |-> FALSE,
                        resume |-> 0, end_pos |-> 0])
                /\ pc' = (IF replay.panic THEN "panic" ELSE "uextend")
                /\ sink' = sink
    /\ UNCHANGED <<input, options, address, is_tty, data, ps, fm, us, probe_pos,
                   build, first, sourceVars, fn>>

\* The bytes an extension step adds to the run under way.
Write(bytes) ==
    IF WriteFails(bytes)
    THEN /\ sink' = "failed"
         /\ UNCHANGED <<out, emitted>>
    ELSE /\ sink' = sink
         /\ out' = out \o bytes
         /\ emitted' = [emitted EXCEPT ![Len(emitted)].content = @ \o bytes]

\* One turn of the loop that reads unchecked bytes after the minimum.
UnicodeExtendStep ==
    /\ pc = "uextend"
    /\ LET r == read_byte(data)
           c == r.byte
           n1 == (us.num_read + 1) % 65536
           p == PeekUtf8(r.src, c, ExtendSeekBack, options.unicode_display)
           np == (n1 + p.nread) % 65536
       IN  IF ~r.some
           THEN /\ pc' = "done"
                /\ data' = r.src
                /\ UNCHANGED <<us, out, emitted, build, sink>>
           ELSE IF ~char_is_printable(c, options.encoding, options.include_all_whitespace)
           THEN /\ pc' = "useparator"
                /\ data' = r.src
                /\ us' = [us EXCEPT !.num_read = n1]
                /\ UNCHANGED <<out, emitted, build, sink>>
           ELSE IF c < 127
           THEN /\ pc' = (IF WriteFails(<<c>>) THEN "panic" ELSE "uextend")
                /\ data' = r.src
                /\ us' = [us EXCEPT !.num_read = n1]
                /\ Write(<<c>>)
                /\ build' = build
           ELSE IF c < 192
           THEN /\ pc' = "useparator"
                /\ data' = r.src
                /\ us' = [us EXCEPT !.num_read = n1]
                /\ UNCHANGED <<out, emitted, build, sink>>
           ELSE \E outcome \in Outcomes(p.overflow, p.panic) :
                  /\ build' = BuildAfter(p.overflow, outcome)
                  /\ data' = p.src
                  /\ us' = [us EXCEPT !.num_read = np]
                  /\ pc' = (CASE outcome = "panic" -> "panic"
                              [] p.outcome = "eof" -> "done"
                              [] p.outcome = "reject" -> "useparator"
                              [] WriteFails(display_utf8_char(p.utf8, options.unicode_display,
                                                              is_tty).written) -> "panic"
                              [] OTHER -> "uextend")
                  /\ IF p.outcome = "char" /\ outcome # "panic"
                     THEN Write(display_utf8_char(p.utf8, options.unicode_display,
                                                  is_tty).written)
                     ELSE UNCHANGED <<out, emitted, sink>>
    /\ UNCHANGED <<input, options, address, is_tty, ps, fm, probe_pos, first,
                   sourceVars, fn>>

\* The run is over: write the separator and start the outer loop again.
UnicodeSeparator ==
    /\ pc = "useparator"
    /\ IF WriteFails(Separator)
       THEN /\ pc' = "panic"
            /\ sink' = "failed"
            /\ UNCHANGED <<out, emitted, us, probe_pos>>
       ELSE /\ out' = out \o Separator
            /\ emitted' = [emitted EXCEPT ![Len(emitted)] =
                              [@ EXCEPT !.closed = TRUE,
                                        !.resume = address + us.start_point + us.num_read,
                                        !.end_pos = Consumed(data, input)]]
            /\ us' = NewUnicodeLocals
            /\ probe_pos' = Consumed(data, input)
            /\ pc' = "uprobe"
            /\ sink' = sink
    /\ UNCHANGED <<input, options, address, is_tty, data, ps, fm, build, first,
                   sourceVars, fn>>

\* ------------------------------------------------------- the second source
\* The same bytes, options and address scanned again through a
\* ReaderWithSeek, as print_strings_for_file sets it up.
ScanWithReader ==
    /\ pc \in {"done", "panic"}
    /\ data.kind = "array"
    /\ first' = [pc |-> pc, out |-> out]
    /\ data' = NewReaderWithSeek(input)
    /\ pc' = "start"
    /\ ps' = NoPs
    /\ fm' = NoFm
    /\ us' = NoUs
    /\ out' = <<>>
    /\ emitted' = <<>>
    /\ probe_pos' = 0
    /\ UNCHANGED <<input, options, address, is_tty, build, sourceVars, sink,
                   fn>>

Next ==
    \/ PrintStrings
    \/ FindProbeStep
    \/ FoundSequence
    \/ ExtendStep
    \/ EmitSeparator
    \/ UnicodeProbeStep
    \/ UnicodeFound
    \/ UnicodeExtendStep
    \/ UnicodeSeparator
    \/ ScanWithReader

Spec == Init /\ [][Next]_vars

\* ------------------------------------------------------- a writer that fails
\* Scans whose writer may stop accepting writes at any point: from then on
\* every write to it returns an error.
InitSink ==
    /\ \/ /\ input \in Seqs(FixedBytes, MaxLenSink)
          /\ options \in FixedOptions
       \/ /\ input \in Seqs(UnicodeBytes, MaxLenSink)
          /\ options \in UnicodeOptions
    /\ \E s \in Setups : address = s.address /\ options.output_separator = s.output_separator
    /\ is_tty = FALSE
    /\ ScanStart
    /\ IdleSource

SinkBreaks ==
    /\ sink = "ok"
    /\ pc \notin {"done", "panic"}
    /\ sink' = "broken"
    /\ UNCHANGED <<input, options, address, is_tty, scanVars, sourceVars, fn>>

NextSink ==
    \/ PrintStrings
    \/ FindProbeStep
    \/ FoundSequence
    \/ ExtendStep
    \/ EmitSeparator
    \/ UnicodeProbeStep
    \/ UnicodeFound
    \/ UnicodeExtendStep
    \/ UnicodeSeparator
    \/ SinkBreaks

SpecSink == InitSink /\ [][NextSink]_vars

\* ------------------------------------------------ Symbol Source exercise
\* Both sources are built over the same bytes and are given the same calls.
\* at: the number of bytes each source had handed out when the call was made.
At(a, r) == [array |-> Consumed(a, input), reader |-> Consumed(r, input)]

NoCall == [op |-> "none", encoding |-> "Bit8", n |-> 0,
           at |-> [array |-> 0, reader |-> 0]]

InitSource ==
    /\ input \in Seqs(SourceBytes, MaxLenSource)
    /\ options \in {o \in FixedOptions : o.min_length = 1 /\ o.encoding = "Bit7"
                                         /\ o.output_separator = NoSeparator}
    /\ address = 0
    /\ is_tty = FALSE
    /\ data = NewByteArrayHolder(<<>>)
    /\ pc = "api"
    /\ ps = NoPs
    /\ fm = NoFm
    /\ us = NoUs
    /\ out = <<>>
    /\ emitted = <<>>
    /\ probe_pos = 0
    /\ build = "unknown"
    /\ first = NoFirst
    /\ holder = NewByteArrayHolder(input)
    /\ reader = NewReaderWithSeek(input)
    /\ got = [array |-> NoSymbol, reader |-> NoSymbol, call |-> NoCall]
    /\ rt = NoRt
    /\ sink = "ok"
    /\ fn = NoFn

scanIdle == <<input, options, address, is_tty, data, ps, fm, us, out, emitted,
              probe_pos, first, sink, fn>>

CallReadSymbol ==
    /\ pc = "api"
    /\ \E encoding \in Encodings :
         \E a \in {ByteArrayHolder_read_symbol(holder, encoding)},
            r \in {ReaderWithSeek_read_symbol(reader, encoding)} :
           /\ holder' = a.src
           /\ reader' = r.src
           /\ got' = [array |-> a.ret, reader |-> r.ret,
                      call |-> [op |-> "read_symbol", encoding |-> encoding, n |-> 0,
                                at |-> At(holder, reader)]]
    /\ rt' = NoRt
    /\ UNCHANGED <<scanIdle, pc, build>>

\* Option<u8> kept in the shape of a symbol: the byte, and no count.
AsSymbol(b) == [some |-> b.some, value |-> <<0, 0, 0, b.byte>>, read |-> 0]

CallReadByte ==
    /\ pc = "api"
    /\ \E a \in {ByteArrayHolder_read_byte(holder)},
          r \in {ReaderWithSeek_read_byte(reader)} :
         /\ holder' = a.src
         /\ reader' = r.src
         /\ got' = [array |-> AsSymbol(a), reader |-> AsSymbol(r),
                    call |-> [op |-> "read_byte", encoding |-> "Bit8", n |-> 0,
                              at |-> At(holder, reader)]]
    /\ rt' = NoRt
    /\ UNCHANGED <<scanIdle, pc, build>>

CallSeekBack ==
    /\ pc = "api"
    /\ \E n \in 0..(MAX_KEEP_BACK_SIZE + 1) :
         \E a \in {ByteArrayHolder_seek_back(holder, n)},
            r \in {ReaderWithSeek_seek_back(reader, n)} :
           \E outcome \in Outcomes(a.overflow, r.panic) :
             /\ build' = BuildAfter(a.overflow, outcome)
             /\ pc' = (IF outcome = "panic" THEN "panic" ELSE "api")
             /\ holder' = a.src
             /\ reader' = r.src
             /\ got' = [array |-> NoSymbol, reader |-> NoSymbol,
                        call |-> [op |-> "seek_back", encoding |-> "Bit8", n |-> n,
                                at |-> At(holder, reader)]]
    /\ rt' = NoRt
    /\ UNCHANGED <<scanIdle>>

\* n calls of read_symbol: the source after them and what they returned.
RECURSIVE ReadN(_, _, _)
ReadN(src, encoding, n) ==
    IF n = 0 THEN [src |-> src, rets |-> <<>>]
    ELSE LET r == read_symbol(src, encoding)
             rest == ReadN(r.src, encoding, n - 1)
         IN  [src |-> rest.src, rets |-> <<r.ret>> \o rest.rets]

RECURSIVE BytesRead(_)
BytesRead(rets) ==
    IF Len(rets) = 0 THEN 0 ELSE Head(rets).read + BytesRead(Tail(rets))

\* Read n symbols, seek back over the bytes they consumed, read n symbols
\* again.  redo = FALSE leaves out the seek-back and the second reading.
RoundTripOf(src, encoding, n, redo) ==
    LET one == ReadN(src, encoding, n)
        k == BytesRead(one.rets)
        sb == seek_back(one.src, k)
        two == ReadN(sb.src, encoding, n)
    IN  IF redo
        THEN [first |-> one.rets, second |-> two.rets, k |-> k, redo |-> TRUE,
              before |-> Consumed(one.src, input), after |-> Consumed(two.src, input),
              src |-> two.src, overflow |-> sb.overflow, panic |-> sb.panic]
        ELSE [first |-> one.rets, second |-> <<>>, k |-> k, redo |-> FALSE,
              before |-> Consumed(one.src, input), after |-> Consumed(one.src, input),
              src |-> one.src, overflow |-> FALSE, panic |-> FALSE]

\* The stream-backed source goes back only when the bytes read fit its
\* retained history.
RoundTrip ==
    /\ pc = "api"
    /\ \E encoding \in Encodings, n \in 1..MaxRoundTrip :
         \E a \in {RoundTripOf(holder, encoding, n, TRUE)} :
           \E r \in {RoundTripOf(reader, encoding, n, a.k <= MAX_KEEP_BACK_SIZE)} :
             \E outcome \in Outcomes(a.overflow, r.panic) :
               /\ build' = BuildAfter(a.overflow, outcome)
               /\ pc' = (IF outcome = "panic" THEN "panic" ELSE "api")
               /\ holder' = a.src
               /\ reader' = r.src
               /\ got' = [array |-> a.first[n], reader |-> r.first[n],
                          call |-> [op |-> "round_trip", encoding |-> encoding, n |-> n,
                                    at |-> At(holder, reader)]]
               /\ rt' = [n |-> n, encoding |-> encoding,
                         array |-> [x \in {"first", "second", "k", "redo", "before", "after"} |-> a[x]],
                         reader |-> [x \in {"first", "second", "k", "redo", "before", "after"} |-> r[x]]]
    /\ UNCHANGED <<scanIdle>>

NextSource ==
    \/ CallReadSymbol
    \/ CallReadByte
    \/ CallSeekBack
    \/ RoundTrip

SpecSource == InitSource /\ [][NextSource]_vars

\* ------------------------------------------- scans under every prefix option
PrefixOptions ==
    [min_length : {1},
     include_all_whitespace : {FALSE},
     encoding : {"Bit8"},
     unicode_display : {"Default", "Escape"},
     output_separator : {NoSeparator},
     address_radix : Radixes,
     print_filenames : BOOLEAN,
     print_addresses : BOOLEAN]

InitPrefix ==
    /\ input \in Seqs(UnicodeBytes, MaxLenPrefix)
    /\ options \in PrefixOptions
    /\ address \in {0, BaseAddress}
    /\ is_tty = FALSE
    /\ ScanStart
    /\ IdleSource

NextPrefix ==
    \/ PrintStrings
    \/ FindProbeStep
    \/ FoundSequence
    \/ ExtendStep
    \/ EmitSeparator
    \/ UnicodeProbeStep
    \/ UnicodeFound
    \/ UnicodeExtendStep
    \/ UnicodeSeparator

SpecPrefix == InitPrefix /\ [][NextPrefix]_vars

\* ------------------------------------- fixed-width scans down to min_length 0
EmptySeparator == [some |-> TRUE, bytes |-> <<>>]

\* min_length 1 with offsets and the default separator, and min_length 0
\* with nothing written around a run: no prefix and an empty separator.
ZeroOptions ==
    [min_length : {1},
     include_all_whitespace : {FALSE},
     encoding : Encodings,
     unicode_display : {"Default"},
     output_separator : {NoSeparator},
     address_radix : {"Hex"},
     print_filenames : {FALSE},
     print_addresses : {TRUE}]
    \cup
    [min_length : {0},
     include_all_whitespace : {FALSE},
     encoding : Encodings,
     unicode_display : {"Default"},
     output_separator : {EmptySeparator},
     address_radix : {"Hex"},
     print_filenames : {FALSE},
     print_addresses : {FALSE}]

InitZero ==
    /\ input \in Seqs(FixedBytes, MaxLenZero)
    /\ options \in ZeroOptions
    /\ address \in {0, BaseAddress}
    /\ is_tty = FALSE
    /\ ScanStart
    /\ IdleSource

\* The log of runs holds at most MaxRunsZero runs, more than an input of
\* MaxLenZero bytes holds at min_length 1: a run is logged when there is
\* room, and the oldest entry leaves the log when there is none.
FoundSequenceBounded ==
    /\ Len(emitted) < MaxRunsZero
    /\ FoundSequence

TrimLog ==
    /\ pc = "probe"
    /\ Len(emitted) >= MaxRunsZero
    /\ emitted' = Tail(emitted)
    /\ UNCHANGED <<input, options, address, is_tty, data, pc, ps, fm, us, out,
                   probe_pos, build, first, sourceVars, sink, fn>>

NextZero ==
    \/ PrintStrings
    \/ FindProbeStep
    \/ FoundSequenceBounded
    \/ ExtendStep
    \/ EmitSeparator
    \/ TrimLog

\* The scan is a sequential program: it takes its next step whenever it has
\* one.
SpecZero == InitZero /\ [][NextZero]_vars /\ WF_vars(NextZero)

\* ---------------------------- Unicode-aware scans with a large min_length
WideOptions ==
    [min_length : {1, WideMinLength},
     include_all_whitespace : {FALSE},
     encoding : {"Bit8"},
     unicode_display : {"Escape", "Invalid"},
     output_separator : {NoSeparator, BarSeparator},
     address_radix : {"Hex"},
     print_filenames : {FALSE},
     print_addresses : {TRUE}]

InitWide ==
    /\ input \in Seqs(UnicodeBytes, MaxLenWide)
    /\ options \in WideOptions
    /\ \E s \in Setups : address = s.address /\ options.output_separator = s.output_separator
    /\ is_tty = FALSE
    /\ ScanStart
    /\ IdleSource

NextWide ==
    \/ PrintStrings
    \/ UnicodeProbeStep
    \/ UnicodeFound
    \/ UnicodeExtendStep
    \/ UnicodeSeparator

SpecWide == InitWide /\ [][NextWide]_vars

\* ------------------------------------------------- utils.rs, called directly
\* The bytes at the edges of the classes is_valid_utf8 tells apart: ASCII,
\* continuation bytes, and the lead bytes of 2-, 3- and 4-byte sequences.
WindowBytes == {65, 127, 128, 191, 192, 223, 224, 239, 240, 255}

Windows == UNION {[1..k -> WindowBytes] : k \in 1..MaxWindow}

NoWindow == <<0>>

CharCalls ==
    [op : {"char_is_printable"}, c : 0..MaxChar, encoding : Encodings,
     include_all_whitespace : BOOLEAN, buffer : {NoWindow}, display : {"Default"},
     done : {FALSE}, printable : {FALSE}, length : {0}, written : {<<>>},
     lengths : {<<>>}]

Utf8Calls ==
    [op : {"is_valid_utf8"}, c : {0}, encoding : {"Bit8"},
     include_all_whitespace : {FALSE}, buffer : Windows, display : {"Default"},
     done : {FALSE}, printable : {FALSE}, length : {0}, written : {<<>>},
     lengths : {<<>>}]

\* Lead bytes of 2-, 3- and 4-byte sequences.
LeadBytes == {192, 194, 223, 224, 239, 240, 247}

\* Continuation bytes, and NUL and 'A' for what follows a character.
TailBytes == {128, 136, 141, 144, 162, 164, 185, 191, 0, 65}

\* The slices display_utf8_char is handed: a lead byte and at least the
\* bytes its length asks for.
DisplayWindows ==
    {w \in UNION {[1..k -> LeadBytes \cup TailBytes] : k \in 2..MaxWindow} :
        /\ w[1] \in LeadBytes
        /\ \A i \in 2..Len(w) : w[i] \in TailBytes
        /\ Len(w) >= utf8_len_of(w[1])}

DisplayCalls ==
    [op : {"display_utf8_char"}, c : {0}, encoding : {"Bit8"},
     include_all_whitespace : {FALSE}, buffer : DisplayWindows,
     display : {"Escape", "Hex", "Show", "Highlight"},
     done : {FALSE}, printable : {FALSE}, length : {0}, written : {<<>>},
     lengths : {<<>>}]

\* The windows that begin with a byte the scanner starts peeking at.
LeadWindows == {w \in Windows : w[1] >= 192}

\* One window taken through the scanner's inline checks, is_valid_utf8 and
\* display_utf8_char.
LengthCalls ==
    [op : {"sequence_length"}, c : {0}, encoding : {"Bit8"},
     include_all_whitespace : {FALSE}, buffer : LeadWindows,
     display : {"Escape", "Show"},
     done : {FALSE}, printable : {FALSE}, length : {0}, written : {<<>>},
     lengths : {<<>>}]

InitPure ==
    /\ input = <<>>
    /\ options \in {o \in FixedOptions : o.min_length = 1 /\ o.encoding = "Bit7"
                                         /\ o.output_separator = NoSeparator}
    /\ address = 0
    /\ fn \in CharCalls \cup Utf8Calls \cup DisplayCalls \cup LengthCalls
    /\ is_tty \in (IF fn.display = "Highlight" THEN BOOLEAN ELSE {FALSE})
    /\ data = NewByteArrayHolder(<<>>)
    /\ pc = "pure"
    /\ ps = NoPs
    /\ fm = NoFm
    /\ us = NoUs
    /\ out = <<>>
    /\ emitted = <<>>
    /\ probe_pos = 0
    /\ build = "unknown"
    /\ first = NoFirst
    /\ sink = "ok"
    /\ holder = NewByteArrayHolder(<<>>)
    /\ reader = NewReaderWithSeek(<<>>)
    /\ got = [array |-> NoSymbol, reader |-> NoSymbol, call |-> NoCall]
    /\ rt = NoRt

CallCharIsPrintable ==
    /\ pc = "pure"
    /\ fn.op = "char_is_printable"
    /\ ~fn.done
    /\ fn' = [fn EXCEPT !.done = TRUE,
                        !.printable = char_is_printable(fn.c, fn.encoding,
                                                        fn.include_all_whitespace)]
    /\ UNCHANGED <<input, options, address, is_tty, scanVars, sourceVars, sink>>

CallIsValidUtf8 ==
    /\ pc = "pure"
    /\ fn.op = "is_valid_utf8"
    /\ ~fn.done
    /\ fn' = [fn EXCEPT !.done = TRUE, !.length = is_valid_utf8(fn.buffer)]
    /\ UNCHANGED <<input, options, address, is_tty, scanVars, sourceVars, sink>>

CallDisplayUtf8Char ==
    /\ pc = "pure"
    /\ fn.op = "display_utf8_char"
    /\ ~fn.done
    /\ \E r \in {display_utf8_char(fn.buffer, fn.display, is_tty)} :
         fn' = [fn EXCEPT !.done = TRUE, !.written = r.written, !.length = r.len]
    /\ UNCHANGED <<input, options, address, is_tty, scanVars, sourceVars, sink>>

\* The window is read from a slice as the probe loop reads it: the lead
\* byte, then the peeking; the window the scanner has gathered goes to
\* display_utf8_char, the bytes as they stand to is_valid_utf8.
CallSequenceLength ==
    /\ pc = "pure"
    /\ fn.op = "sequence_length"
    /\ ~fn.done
    /\ \E r \in {read_byte(NewByteArrayHolder(fn.buffer))} :
         \E p \in {PeekUtf8(r.src, r.byte, ProbeSeekBack, fn.display)} :
           fn' = [fn EXCEPT
                     !.done = TRUE,
                     !.lengths =
                         <<IF p.outcome = "char" THEN p.len ELSE 0,
                           is_valid_utf8(fn.buffer),
                           IF p.outcome = "char"
                           THEN display_utf8_char(p.utf8, fn.display, is_tty).len
                           ELSE 0>>]
    /\ UNCHANGED <<input, options, address, is_tty, scanVars, sourceVars, sink>>

NextPure ==
    \/ CallCharIsPrintable
    \/ CallIsValidUtf8
    \/ CallDisplayUtf8Char
    \/ CallSequenceLength

SpecPure == InitPure /\ [][NextPure]_vars

\* ================================================================ properties
FixedMode == options.unicode_display = "Default"

UnicodeMode == options.unicode_display # "Default"

SingleByte == options.encoding \in {"Bit7", "Bit8"}

Runs == {emitted[k] : k \in 1..Len(emitted)}

Contents == [k \in 1..Len(emitted) |-> emitted[k].content]

AllClosed == \A e \in Runs : e.closed

\* The maximal runs of printable bytes of at least min_length bytes, in
\* input order; run holds the printable bytes met since the last other byte.
RECURSIVE PrintableRuns(_, _, _)
PrintableRuns(bytes, k, run) ==
    LET kept == IF Len(run) >= options.min_length THEN <<run>> ELSE <<>>
    IN  IF k > Len(bytes) THEN kept
        ELSE IF char_is_printable(bytes[k], options.encoding,
                                  options.include_all_whitespace)
        THEN PrintableRuns(bytes, k + 1, Append(run, bytes[k]))
        ELSE kept \o PrintableRuns(bytes, k + 1, <<>>)

\* C1: in fixed-width mode with a single-byte encoding, a finished scan has
\* emitted exactly the maximal runs of consecutive printable bytes of length
\* >= min_length, each once, in input order, each with its input bytes as
\* content.
C1_MaximalRuns ==
    (FixedMode /\ SingleByte /\ pc = "done")
        => (AllClosed /\ Contents = PrintableRuns(input, 1, <<>>))

\* "A\0AA" followed by a byte 7-bit does not print, min_length 2: the run
\* "A" is discarded and "AA" is the one run emitted.
C1_Witness ==
    /\ pc = "done"
    /\ FixedMode
    /\ options.encoding = "Bit7"
    /\ options.min_length = 2
    /\ input = <<65, 0, 65, 65, 195>>
    /\ Contents = << <<65, 65>> >>

\* The units between two byte positions of the input: symbols of the
\* encoding's width in fixed-width mode, and in Unicode-aware mode the bytes
\* that begin a character (ASCII bytes and lead bytes).
UnitsBetween(from, to) ==
    IF FixedMode
    THEN ((to - from) + (num_bytes(options.encoding) - 1)) \div num_bytes(options.encoding)
    ELSE Cardinality({k \in (from + 1)..to : input[k] < 128 \/ input[k] >= 192})

\* What the writer holds when runs is all that was emitted: per run the
\* prefix, the content and, once the run is closed, the separator.
RECURSIVE Rendered(_, _)
Rendered(runs, sep) ==
    IF Len(runs) = 0 THEN <<>>
    ELSE LET e == Head(runs)
         IN  print_filename_and_address(FileName, e.address, options)
                 \o e.content
                 \o (IF e.closed THEN sep ELSE <<>>)
                 \o Rendered(Tail(runs), sep)

C3_StartOffset ==
    FixedMode => \A e \in Runs : e.address = address + e.pos

\* C4: in Unicode-aware mode the offset handed to the prefix writer for
\* every emitted run is the base address plus the byte position of the run's
\* first byte: for the first run, for later runs and after failed
\* multi-byte candidates.
C4_UnicodeStartOffset ==
    UnicodeMode => \A e \in Runs : e.address = address + e.pos

ConfiguredSeparator ==
    IF options.output_separator.some THEN options.output_separator.bytes ELSE <<10>>

\* C6: in fixed-width mode the writer holds, for every emitted run, the
\* run's content followed immediately by the separator; when the scan has
\* finished no run is left without it, a run of exactly min_length symbols
\* ended by end-of-input included.
C6_SeparatorFollows ==
    FixedMode =>
        /\ pc \notin {"start", "api"} => out = Rendered(emitted, ConfiguredSeparator)
        /\ \A k \in 1..(Len(emitted) - 1) : emitted[k].closed
        /\ pc = "done" => AllClosed

\* The whole input is one run of exactly min_length symbols, ended by
\* end-of-input, and a separator is configured.
C6_Witness ==
    /\ pc = "done"
    /\ FixedMode
    /\ options.encoding = "Bit8"
    /\ options.min_length = 2
    /\ options.output_separator = BarSeparator
    /\ input = <<65, 195>>
    /\ Len(emitted) = 1
    /\ emitted[1].closed
    /\ emitted[1].content = input

\* C7: in Unicode-aware mode every emitted run's content is followed by the
\* separator before the scan ends or the next run's prefix is written,
\* end-of-input during the extension phase included.
C7_UnicodeSeparator ==
    UnicodeMode =>
        /\ \A k \in 1..(Len(emitted) - 1) : emitted[k].closed
        /\ pc = "done" => AllClosed

\* C8: a scan through the stream-backed source ends as the scan of the same
\* input, base address and configuration through the slice-backed source
\* ended, with byte-identical output.
C8_SameOutput ==
    (data.kind = "reader" /\ pc \in {"done", "panic"})
        => (out = first.out /\ pc = first.pc)

\* A 16-bit scan through the stream-backed source that pulled more bytes
\* than the history retains and wrote a run.
C8_Witness ==
    /\ data.kind = "reader"
    /\ pc = "done"
    /\ options.encoding = "BigEndian16"
    /\ Len(input) > MAX_KEEP_BACK_SIZE
    /\ Len(data.back_buf) = MAX_KEEP_BACK_SIZE
    /\ Len(emitted) = 1
    /\ out = first.out
    /\ out # <<>>

\* C9: as long as no seek_back reached further back than the stream-backed
\* source retains, the call just made returned the same result from the
\* slice-backed and from the stream-backed source, and both stand at the
\* same byte of the input.
C9_SameResults ==
    pc = "api" => /\ got.array = got.reader
                  /\ Consumed(holder, input) = Consumed(reader, input)

\* A read_symbol that returned a partial last symbol, after the history had
\* been filled.
C9_Witness ==
    /\ pc = "api"
    /\ got.call.op = "read_symbol"
    /\ got.reader.some
    /\ got.reader.read < num_bytes(got.call.encoding)
    /\ Len(reader.back_buf) = MAX_KEEP_BACK_SIZE
    /\ got.array = got.reader

\* C10: after reading n symbols that consumed k bytes (k <= 4 for the
\* stream-backed source), seek_back(k) does not panic, reading n symbols
\* again returns the same sequence of (value, bytes consumed) results, and
\* the source is where it was before the seek-back.
C10_RoundTrip ==
    rt.n > 0 =>
        /\ pc = "api"
        /\ rt.array.redo
        /\ rt.array.second = rt.array.first
        /\ rt.array.after = rt.array.before
        /\ rt.reader.redo = (rt.reader.k <= MAX_KEEP_BACK_SIZE)
        /\ rt.reader.redo => /\ rt.reader.second = rt.reader.first
                             /\ rt.reader.after = rt.reader.before

\* Two 16-bit symbols over the full history of the stream-backed source,
\* read again after bytes had been dropped from it.
C10_Witness ==
    /\ rt.n = 2
    /\ rt.encoding = "BigEndian16"
    /\ rt.reader.redo
    /\ rt.reader.k = MAX_KEEP_BACK_SIZE
    /\ rt.reader.before > MAX_KEEP_BACK_SIZE
    /\ rt.reader.second = rt.reader.first
    /\ rt.array.second = rt.array.first

\* The width of a symbol in bytes: 1 for the 7-bit and 8-bit encodings, 2 for
\* the 16-bit and 4 for the 32-bit ones.
WidthOf(encoding) ==
    IF encoding \in {"Bit7", "Bit8"} THEN 1
    ELSE IF encoding \in {"BigEndian16", "LittleEndian16"} THEN 2 ELSE 4

\* The big-endian composition of up to four bytes, as a 32-bit value.
Composed(bytes) ==
    [k \in 1..4 |-> IF k > 4 - Len(bytes) THEN bytes[k - (4 - Len(bytes))] ELSE 0]

\* The value of a symbol made of bytes: the composition, its two low bytes
\* swapped for LE16, its four bytes reversed for LE32.
ValueOf(encoding, bytes) ==
    LET v == Composed(bytes)
    IN  CASE encoding = "LittleEndian16" -> <<0, 0, v[4], v[3]>>
          [] encoding = "LittleEndian32" -> <<v[4], v[3], v[2], v[1]>>
          [] OTHER -> v

\* What a read of width bytes at position at of the input is to return.
ReadAsClaimed(ret, encoding, width, at) ==
    LET remaining == Len(input) - at
        r == IF width < remaining THEN width ELSE remaining
    IN  /\ ret.some <=> remaining > 0
        /\ ret.some => /\ ret.read = r
                       /\ ret.value = ValueOf(encoding, SubSeq(input, at + 1, at + r))

\* C11: read_symbol consumes min(width, bytes remaining) bytes, returns None
\* iff none remain, and returns the big-endian composition of the bytes it
\* consumed, byte-swapped to width 2 or 4 for the little-endian encodings,
\* for a full and for a partial last symbol; read_byte returns the low byte
\* of an 8-bit read_symbol.  Checked on both sources.
C11_ReadSymbol ==
    pc = "api" =>
        /\ got.call.op = "read_symbol" =>
             /\ ReadAsClaimed(got.array, got.call.encoding,
                              WidthOf(got.call.encoding), got.call.at.array)
             /\ ReadAsClaimed(got.reader, got.call.encoding,
                              WidthOf(got.call.encoding), got.call.at.reader)
             /\ Consumed(holder, input) = got.call.at.array + got.array.read
             /\ Consumed(reader, input) = got.call.at.reader + got.reader.read
        /\ got.call.op = "read_byte" =>
             /\ ReadAsClaimed([got.array EXCEPT !.read = IF got.array.some THEN 1 ELSE 0],
                              "Bit8", 1, got.call.at.array)
             /\ ReadAsClaimed([got.reader EXCEPT !.read = IF got.reader.some THEN 1 ELSE 0],
                              "Bit8", 1, got.call.at.reader)

\* A 32-bit little-endian read with the two bytes 12 AA left: two bytes
\* consumed, and the value AA 12 00 00.
C11_Witness ==
    /\ pc = "api"
    /\ got.call.op = "read_symbol"
    /\ got.call.encoding = "LittleEndian32"
    /\ got.call.at.array = Len(input) - 2
    /\ got.array.read = 2
    /\ got.array.value = <<170, 18, 0, 0>>
    /\ got.reader = got.array

\* C12: between the calls made to the stream-backed source, as long as no
\* seek_back panicked, back_pos <= back_buf.len() <= MAX_KEEP_BACK_SIZE.
C12_BoundedHistory ==
    pc = "api" => /\ reader.back_pos <= Len(reader.back_buf)
                  /\ Len(reader.back_buf) <= MAX_KEEP_BACK_SIZE

\* More bytes pulled than the history holds, and a seek-back over all of
\* the history.
C12_Witness ==
    /\ pc = "api"
    /\ Len(input) = MaxLenSource
    /\ Len(reader.inner) = 0
    /\ Len(reader.back_buf) = MAX_KEEP_BACK_SIZE
    /\ reader.back_pos = MAX_KEEP_BACK_SIZE

\* C13: a seek_back(n) on the stream-backed source with back_pos + n greater
\* than the number of retained bytes panics; it does not return.
C13_OverSeekPanics ==
    [][(/\ pc = "api"
        /\ got'.call.op = "seek_back"
        /\ reader.back_pos + got'.call.n > Len(reader.back_buf))
           => pc' = "panic"]_vars

\* seek_back(1) with the whole history already pending, far enough into the
\* input for the slice-backed source to go back: the panic is the stream's.
C13_Witness ==
    /\ pc = "panic"
    /\ got.call.op = "seek_back"
    /\ got.call.n = 1
    /\ build = "unknown"
    /\ Len(reader.back_buf) = MAX_KEEP_BACK_SIZE
    /\ reader.back_pos = MAX_KEEP_BACK_SIZE + 1

C15_NoAbort ==
    (FixedMode /\ address = 0) => (pc # "panic" /\ build = "unknown")

\* How far a scan is from its end within the bytes not yet consumed: a probe
\* under way is nearest, then the separator, the extension, a probe that
\* has just completed, and the entry of the scan.
Phase ==
    CASE pc \in {"done", "panic"} -> 0
      [] pc = "probe" -> (IF AsciiProbeDone(fm.i) THEN 4 ELSE 1)
      [] pc = "uprobe" -> (IF UnicodeProbeDone(us.num_chars) THEN 4 ELSE 1)
      [] pc \in {"separator", "useparator"} -> 2
      [] pc \in {"extend", "uextend"} -> 3
      [] OTHER -> 5

\* The measure of a scan: the bytes the source has still to hand out come
\* first, the phase second; the scan through the slice-backed source lies
\* before the scan through the stream-backed one.
Rank ==
    (IF data.kind = "array" THEN (Len(input) + 1) * 6 ELSE 0)
        + (Len(input) - Consumed(data, input)) * 6 + Phase

\* C16: the scan terminates.  Every step of a scan lowers a measure that is
\* never negative, in which the bytes left in the source weigh most; and a
\* new candidate never begins before the previous one: each abandoned probe
\* and each completed run leaves the source further along than where the
\* probe began.
C16_Terminates ==
    /\ [](Rank >= 0)
    /\ [][Rank' < Rank]_vars
    /\ [][(data'.kind = data.kind /\ probe_pos' # probe_pos)
              => probe_pos' > probe_pos]_vars

\* A scan through the stream-backed source that abandoned probes, completed
\* two runs and left the loop at end-of-input with the source exhausted.
C16_Witness ==
    /\ pc = "done"
    /\ data.kind = "reader"
    /\ FixedMode
    /\ options.min_length = 1
    /\ input = <<0, 65, 0, 65, 65>>
    /\ Len(emitted) = 2
    /\ Consumed(data, input) = Len(input)

\* C17: once a write to the sink has failed, be it a prefix, the content of
\* a run or a separator, the scan is in a hard failure: it does not go on.
C17_WriteFailureIsFatal ==
    sink = "failed" => pc = "panic"

\* a > b on u64 addresses; an address below zero stands for a wrapped one,
\* 2^64 plus its value.
After(a, b) == IF (a < 0) = (b < 0) THEN a > b ELSE a < 0

\* C18: the start offsets handed to the prefix writer for successive runs of
\* a scan are strictly increasing, and each run starts at or after the
\* offset where the previous run ended, in both modes.
C18_RunsInOrder ==
    pc # "api" =>
        \A k \in 2..Len(emitted) :
            /\ After(emitted[k].address, emitted[k - 1].address)
            /\ ~After(emitted[k - 1].resume, emitted[k].address)

\* The printable set as the words of the contract give it.
PrintableAsClaimed(c, encoding, include_all_whitespace) ==
    /\ c \in 0..255
    /\ \/ c = 9
       \/ c \in 32..126
       \/ (encoding = "Bit8" /\ c > 127)
       \/ (include_all_whitespace /\ c \in {32, 9, 10, 11, 12, 13})

\* C19: char_is_printable(c, encoding, include_all_whitespace) is true iff c
\* is at most 0xFF and c is tab, or in 0x20..0x7E, or above 0x7F under the
\* 8-bit encoding, or one of space, tab, LF, VT, FF, CR with
\* include_all_whitespace; so 0x7F is never printable, 0x80..0xFF only under
\* the 8-bit encoding, and LF, VT, FF, CR only with include_all_whitespace.
C19_Printable ==
    (fn.op = "char_is_printable" /\ fn.done) =>
        /\ fn.printable <=> PrintableAsClaimed(fn.c, fn.encoding,
                                               fn.include_all_whitespace)
        /\ fn.c = 127 => ~fn.printable
        /\ (fn.c \in 128..255 /\ fn.printable) => fn.encoding = "Bit8"
        /\ (fn.c \in {10, 11, 12, 13} /\ fn.printable) => fn.include_all_whitespace

C19_Witness ==
    /\ fn.op = "char_is_printable"
    /\ fn.done
    /\ fn.c = 11
    /\ fn.include_all_whitespace
    /\ fn.printable

\* The length the lead byte of a window declares.
DeclaredByLead(b) ==
    IF Bits(b, 5, 1) = 0 THEN 2 ELSE IF Bits(b, 4, 1) = 0 THEN 3 ELSE 4

Utf8AsClaimed(w) ==
    IF w[1] < 192 THEN 0
    ELSE IF /\ Len(w) >= DeclaredByLead(w[1])
            /\ \A i \in 2..DeclaredByLead(w[1]) : w[i] \in 128..191
         THEN DeclaredByLead(w[1])
         ELSE 0

\* C20: for a non-empty window of up to 4 bytes is_valid_utf8 returns 0, 2, 3
\* or 4 and never 1: 0 when the first byte is below 0xC0; otherwise the
\* length L the first byte declares when the window holds L bytes and bytes
\* 1..L-1 are all in 0x80..0xBF, and 0 when one of them is missing or not.
C20_ValidUtf8 ==
    (fn.op = "is_valid_utf8" /\ fn.done) =>
        /\ fn.length \in {0, 2, 3, 4}
        /\ fn.length = Utf8AsClaimed(fn.buffer)

C20_Witness ==
    /\ fn.op = "is_valid_utf8"
    /\ fn.done
    /\ fn.length = 4

\* A byte in 0x80..0xBF.
IsContinuation(b) == b \in 128..191

\* \u and the code point as lowercase hex digits, at least width of them.
EscapeOf(cp, width) == <<92, 117>> \o Chars(PadLeft(Digits(cp, 16), width, 0))

EscapeCall == fn.op = "display_utf8_char" /\ fn.done /\ fn.display = "Escape"

\* C21: in Escape mode a well-formed 2-byte sequence (lead 0xC0..0xDF) and a
\* well-formed 3-byte sequence (lead 0xE0..0xEF) are written as a backslash,
\* 'u' and exactly four lowercase hex digits of the decoded code point, and
\* the formatter returns 2 resp. 3.
C21_EscapeShort ==
    EscapeCall =>
        /\ (fn.buffer[1] \in 192..223 /\ IsContinuation(fn.buffer[2])) =>
               /\ fn.written = EscapeOf(Bits(fn.buffer[1], 0, 5) * 64
                                        + Bits(fn.buffer[2], 0, 6), 4)
               /\ Len(fn.written) = 6
               /\ fn.length = 2
        /\ (/\ fn.buffer[1] \in 224..239
            /\ Len(fn.buffer) >= 3
            /\ IsContinuation(fn.buffer[2])
            /\ IsContinuation(fn.buffer[3])) =>
               /\ fn.written = EscapeOf(Bits(fn.buffer[1], 0, 4) * 4096
                                        + Bits(fn.buffer[2], 0, 6) * 64
                                        + Bits(fn.buffer[3], 0, 6), 4)
               /\ Len(fn.written) = 6
               /\ fn.length = 3

C21_Witness ==
    /\ EscapeCall
    /\ fn.buffer[1] = 224
    /\ fn.buffer[2] = 164
    /\ fn.buffer[3] = 185
    /\ fn.written = <<92, 117, 48, 57, 51, 57>>

\* The three 8-bit groups of a 4-byte sequence as the contract gives them.
QuirkGroups(w) ==
    <<((Bits(w[1], 0, 3) * 64) % 256) + Bits(w[2], 2, 4),
      Bits(w[2], 0, 2) * 64 + Bits(w[3], 2, 4),
      Bits(w[3], 0, 2) * 64 + Bits(w[4], 0, 6)>>

TwoDigits(g) == Chars(PadLeft(Digits(g, 16), 2, 0))

\* C22: in Escape mode a 4-byte sequence is written as a backslash, 'u' and
\* exactly six lowercase hex digits, two for each of the three 8-bit groups
\* of the contract, and the formatter returns 4.
C22_EscapeQuirk ==
    (EscapeCall /\ fn.buffer[1] >= 240) =>
        /\ fn.written = <<92, 117>> \o TwoDigits(QuirkGroups(fn.buffer)[1])
                                    \o TwoDigits(QuirkGroups(fn.buffer)[2])
                                    \o TwoDigits(QuirkGroups(fn.buffer)[3])
        /\ Len(fn.written) = 8
        /\ fn.length = 4

C22_Witness ==
    /\ EscapeCall
    /\ fn.buffer = <<240, 144, 141, 136>>
    /\ fn.written = <<92, 117, 48, 52, 48, 51, 52, 56>>

\* The length a lead byte declares: 2 for 0xC0..0xDF, 3 for 0xE0..0xEF, else 4.
LengthOfLead(b) == IF b < 224 THEN 2 ELSE IF b < 240 THEN 3 ELSE 4

RECURSIVE HexOfBytes(_)
HexOfBytes(bytes) ==
    IF bytes = <<>> THEN <<>> ELSE TwoDigits(Head(bytes)) \o HexOfBytes(Tail(bytes))

\* C23: in Hex mode a multi-byte character of declared length L is written
\* as '<0x', the first L bytes of the window as two lowercase hex digits
\* each, and '>', and the formatter returns L.
C23_HexBytes ==
    (fn.op = "display_utf8_char" /\ fn.done /\ fn.display = "Hex") =>
        /\ fn.written = <<60, 48, 120>>
                        \o HexOfBytes(SubSeq(fn.buffer, 1, LengthOfLead(fn.buffer[1])))
                        \o <<62>>
        /\ fn.length = LengthOfLead(fn.buffer[1])

C23_Witness ==
    /\ fn.op = "display_utf8_char"
    /\ fn.done
    /\ fn.display = "Hex"
    /\ fn.buffer = <<240, 144, 141, 136>>
    /\ fn.written = <<60, 48, 120, 102, 48, 57, 48, 56, 100, 56, 56, 62>>

\* The bytes of a run in Show mode as the contract gives them: a byte below
\* 0x7F as it is, a multi-byte character as the bracketed list of its own
\* bytes.
RECURSIVE ShowAsClaimed(_)
ShowAsClaimed(bytes) ==
    IF bytes = <<>> THEN <<>>
    ELSE IF Head(bytes) < 127 \/ Len(bytes) < LengthOfLead(Head(bytes))
    THEN <<Head(bytes)>> \o ShowAsClaimed(Tail(bytes))
    ELSE <<91>> \o DebugList(SubSeq(bytes, 1, LengthOfLead(Head(bytes)))) \o <<93>>
         \o ShowAsClaimed(SubSeq(bytes, LengthOfLead(Head(bytes)) + 1, Len(bytes)))

\* C24: in Show mode every multi-byte character of declared length L met
\* during a scan is written as the bracketed, comma-separated list of the
\* decimal values of its L bytes; the bytes of the 4-byte window beyond the
\* character are not rendered.  So what is written for a run is the
\* rendering of the input bytes from the run's first byte on.
C24_ShowExactBytes ==
    (options.unicode_display = "Show" /\ pc # "api") =>
        \A e \in Runs :
            \E end \in e.pos..Len(input) :
                e.content = ShowAsClaimed(SubSeq(input, e.pos + 1, end))

\* The prefix of a run as the contract gives it.
PrefixAsClaimed(offset) ==
    (IF options.print_filenames THEN FileName \o <<58, 32>> ELSE <<>>)
    \o (IF options.print_addresses
        THEN PadLeft(Chars(U64Digits(offset,
                 CASE options.address_radix = "Oct" -> 8
                   [] options.address_radix = "Dec" -> 10
                   [] options.address_radix = "Hex" -> 16)), 7, 32) \o <<32>>
        ELSE <<>>)

RECURSIVE WrittenAsClaimed(_)
WrittenAsClaimed(runs) ==
    IF Len(runs) = 0 THEN <<>>
    ELSE PrefixAsClaimed(Head(runs).address)
         \o Head(runs).content
         \o (IF Head(runs).closed THEN Separator ELSE <<>>)
         \o WrittenAsClaimed(Tail(runs))

\* C25: for each emitted run exactly one prefix is written, before the run's
\* content: "<filename>: " iff print_filenames is set, then, iff
\* print_addresses is set, the offset handed over for the run in the
\* configured radix (octal, decimal, lowercase hex), right-aligned with
\* spaces to at least 7 characters, and one space; nothing with both off.
C25_PrefixOnce ==
    pc \notin {"start", "api", "pure"} =>
        /\ out = WrittenAsClaimed(emitted)
        /\ (~options.print_filenames /\ ~options.print_addresses) =>
               \A e \in Runs : PrefixAsClaimed(e.address) = <<>>

\* Two runs of a section at BaseAddress, with the file name and octal offsets.
C25_Witness ==
    /\ pc = "done"
    /\ options.print_filenames
    /\ options.print_addresses
    /\ options.address_radix = "Oct"
    /\ address = BaseAddress
    /\ input = <<65, 0, 65>>
    /\ FixedMode
    /\ Len(emitted) = 2
    /\ out = <<102, 58, 32, 32, 32, 32, 32, 32, 50, 48, 32, 65, 10,
               102, 58, 32, 32, 32, 32, 32, 32, 50, 50, 32, 65, 10>>

\* C26: in the fixed-width probe phase, when a symbol fails the classifier
\* the probe is abandoned and the next probe begins exactly one byte past
\* the start of the abandoned probe, in the search address and in the
\* position of the source alike, for every encoding width and however many
\* symbols of the abandoned probe had passed.
C26_ResyncOneByte ==
    [][(pc = "probe" /\ pc' = "probe" /\ ~AsciiProbeDone(fm.i) /\ fm'.i = 0)
          => /\ probe_pos' = probe_pos + 1
             /\ fm'.search_start_address = fm.search_start_address + 1]_vars

MultiByte == options.encoding \notin {"Bit7", "Bit8"}

\* The full-width symbol that begins at byte position p, as read_symbol
\* composes it.
SymbolAt(p) ==
    ApplyEndianness(options.encoding,
        [k \in 1..4 |-> IF k <= 4 - num_bytes(options.encoding) THEN 0
                        ELSE input[p + k - (4 - num_bytes(options.encoding))]])

\* The min_length full-width symbols from byte position p on are all there
\* and all printable.
PrintableFrom(p) ==
    /\ p + options.min_length * num_bytes(options.encoding) <= Len(input)
    /\ \A j \in 0..(options.min_length - 1) :
           ~SymbolRejected(SymbolAt(p + j * num_bytes(options.encoding)),
                           options.encoding, options.include_all_whitespace)

\* The symbols of run e include the min_length symbols from position p on.
Covers(e, p) ==
    /\ e.pos <= p
    /\ (p - e.pos) % num_bytes(options.encoding) = 0
    /\ p + options.min_length * num_bytes(options.encoding)
           <= e.pos + Len(e.content) * num_bytes(options.encoding)

\* C27: for the 16- and 32-bit encodings, whenever the min_length full-width
\* symbols that start at a byte offset p, of any alignment, are all
\* printable, the finished scan has emitted a run whose symbols include
\* them: resynchronisation after failed probes and after the end of a run
\* skips no run that is misaligned with respect to the symbol width.
C27_NoRunSkipped ==
    (FixedMode /\ MultiByte /\ pc = "done") =>
        \A p \in 0..Len(input) :
            PrintableFrom(p) => \E e \in Runs : Covers(e, p)

\* 16-bit big-endian, min_length 2: after a failed probe at offset 0 the run
\* of two symbols at the odd offset 1 is found.
C27_Witness ==
    /\ pc = "done"
    /\ FixedMode
    /\ options.encoding = "BigEndian16"
    /\ options.min_length = 2
    /\ input = <<65, 0, 65, 0, 65>>
    /\ PrintableFrom(1)
    /\ \E e \in Runs : e.pos = 1 /\ Covers(e, 1)

\* The byte at position q + 1 is the lead byte of a multi-byte candidate
\* that fails validation: one of its 2nd to last bytes is in the input and
\* is no continuation byte, those before it being continuation bytes.
CandidateFails(q) ==
    /\ q + 1 <= Len(input)
    /\ input[q + 1] >= 192
    /\ \E k \in 2..LengthOfLead(input[q + 1]) :
           /\ q + k <= Len(input)
           /\ ~IsContinuation(input[q + k])
           /\ \A j \in 2..(k - 1) : IsContinuation(input[q + j])

\* C28: in Unicode-aware mode, whenever a multi-byte candidate fails
\* validation at its 2nd, 3rd or 4th byte, in the probe phase as in the
\* extension phase, the source is rewound so that the next byte read is the
\* one right after the failed lead byte, and the candidate adds no unit to
\* the count and no byte to the output.
C28_RewindPastLead ==
    [][(/\ pc \in {"uprobe", "uextend"}
        /\ pc = "uprobe" => ~UnicodeProbeDone(us.num_chars)
        /\ CandidateFails(Consumed(data, input))
        /\ pc' # "panic")
          => /\ Consumed(data', input) = Consumed(data, input) + 1
             /\ out' = out
             /\ pc = "uprobe" => us'.num_chars = 0]_vars

\* The length of the well-formed multi-byte sequence that begins at byte
\* position k of bytes, 0 when none does.
SequenceAt(bytes, k) ==
    IF /\ bytes[k] >= 192
       /\ k + LengthOfLead(bytes[k]) - 1 <= Len(bytes)
       /\ \A j \in 1..(LengthOfLead(bytes[k]) - 1) : IsContinuation(bytes[k + j])
    THEN LengthOfLead(bytes[k]) ELSE 0

\* The maximal sequences of consecutive units of at least min_length units,
\* rendered: a printable byte below 0x7F as it is, a well-formed multi-byte
\* sequence through the formatter.  run is the rendering of the units met
\* since the last byte that is no unit, n their number.
RECURSIVE UnitRuns(_, _, _, _)
UnitRuns(bytes, k, run, n) ==
    LET kept == IF n >= options.min_length THEN <<run>> ELSE <<>>
    IN  IF k > Len(bytes) THEN kept
        ELSE IF bytes[k] < 127 /\ char_is_printable(bytes[k], options.encoding,
                                                    options.include_all_whitespace)
        THEN UnitRuns(bytes, k + 1, Append(run, bytes[k]), n + 1)
        ELSE IF SequenceAt(bytes, k) > 0
        THEN UnitRuns(bytes, k + SequenceAt(bytes, k),
                      run \o display_utf8_char(
                                 SubSeq(bytes, k, k + SequenceAt(bytes, k) - 1),
                                 options.unicode_display, is_tty).written,
                      n + 1)
        ELSE kept \o UnitRuns(bytes, k + 1, <<>>, 0)

\* C29: in Unicode-aware mode with display Show, Escape, Hex or Highlight a
\* finished scan has emitted exactly the maximal sequences of consecutive
\* units of at least min_length units, a multi-byte character counting as
\* one unit; every ASCII unit is written as its byte and every multi-byte
\* unit once through the formatter, in input order.
C29_UnicodeRuns ==
    (options.unicode_display \in {"Show", "Escape", "Hex", "Highlight"} /\ pc = "done")
        => Contents = UnitRuns(input, 1, <<>>, 0)

UnicodePhases == {"uprobe", "uextend", "useparator"}

\* C30: the formatter is never invoked with display Default or Invalid.
\* Default is routed to the fixed-width scanner; under Invalid every
\* well-formed multi-byte sequence is treated as non-graphic, so that no
\* multi-byte character waits in print_buf for the formatter and every
\* emitted run consists of printable bytes below 0x7F alone, the bytes of
\* the input from the run's first byte on.
C30_FormatterNotReached ==
    /\ options.unicode_display = "Default" => pc \notin UnicodePhases
    /\ (options.unicode_display = "Invalid" /\ pc \in UnicodePhases \cup {"done"}) =>
           /\ \A k \in 1..us.num_print : us.print_buf[k] < 127
           /\ \A e \in Runs :
                  /\ \A k \in 1..Len(e.content) :
                         /\ e.content[k] < 127
                         /\ char_is_printable(e.content[k], options.encoding,
                                              options.include_all_whitespace)
                  /\ e.content = SubSeq(input, e.pos + 1, e.pos + Len(e.content))

\* Display Invalid: the well-formed sequence C3 A9 between two 'A' ends the
\* first run and is no part of the second.
C30_Witness ==
    /\ pc = "done"
    /\ options.unicode_display = "Invalid"
    /\ options.min_length = 1
    /\ input = <<65, 195, 169, 65>>
    /\ Contents = << <<65>>, <<65>> >>

\* C31: the three places that derive the length of a multi-byte sequence
\* agree.  For every window whose lead byte is >= 0xC0 the inline checks of
\* the stream scanner accept it with length L exactly when is_valid_utf8
\* returns L (2, 3 or 4), and display_utf8_char returns the same L for the
\* window the scanner gathered.
C31_LengthsAgree ==
    (fn.op = "sequence_length" /\ fn.done) =>
        /\ fn.lengths[1] = fn.lengths[2]
        /\ fn.lengths[1] \in {0, 2, 3, 4}
        /\ fn.lengths[1] > 0 => fn.lengths[3] = fn.lengths[1]

\* A 3-byte sequence followed by another byte: all three say 3.
C31_Witness ==
    /\ fn.op = "sequence_length"
    /\ fn.done
    /\ fn.buffer = <<224, 128, 191, 65>>
    /\ fn.lengths = <<3, 3, 3>>

\* C32: in the 16- and 32-bit encodings every symbol counted toward
\* min_length or appended to an emitted run was composed from exactly 2
\* resp. 4 input bytes; so the symbols of a run, at the width of the
\* encoding each, lie within the input, and a trailing partial symbol is in
\* no run.
C32_FullWidthSymbols ==
    (FixedMode /\ MultiByte /\ pc # "api") =>
        \A e \in Runs :
            /\ (e.found_end - e.pos) % num_bytes(options.encoding) = 0
            /\ e.pos + Len(e.content) * num_bytes(options.encoding) <= Len(input)

\* C33: the fixed-width scan terminates on every finite input for every
\* min_length the configuration admits, min_length = 0 included: it comes
\* to its end, by returning or by a panic.
C33_TerminatesForAll == <>(pc \in {"done", "panic"})

\* C34: in Unicode-aware mode the scanner's 16-bit counters never overflow,
\* for every min_length in 1..=65535: no arithmetic of the scan overflows,
\* and the probe buffer has min_length * 4 bytes, computed without
\* wrap-around.
C34_CountersExact ==
    UnicodeMode =>
        /\ build = "unknown"
        /\ pc \in UnicodePhases => Len(us.print_buf) = options.min_length * 4

\* C35: in Highlight mode with an interactive terminal as output a rendered
\* multi-byte character is its Escape rendering preceded by ESC [31;47m and
\* followed by the reset sequence ESC [0m; when the output is no interactive
\* terminal the bytes written are those of Escape mode.
C35_Highlight ==
    (fn.op = "display_utf8_char" /\ fn.done /\ fn.display = "Highlight") =>
        fn.written =
            (IF is_tty THEN <<27, 91, 51, 49, 59, 52, 55, 109>> ELSE <<>>)
            \o display_utf8_char(fn.buffer, "Escape", FALSE).written
            \o (IF is_tty THEN <<27, 91, 48, 109>> ELSE <<>>)

====
